---- MODULE Spec2Model ----
(***************************************************************************)
(* Contact-enrichment pipeline of final_working_script.py:                 *)
(*   item -> extract_address -> parse_address -> property search           *)
(*        -> owner resolution -> per-owner phone / email lookup -> report. *)
(* Strings are TLA+ strings (Len, SubSeq and \o act on them), JSON values  *)
(* are tagged records, every boundary request is one step whose response   *)
(* is chosen from a small set of payloads.                                 *)
(***************************************************************************)
EXTENDS Integers, Sequences, FiniteSets, TLC

(***************************************************************************)
(* Strings                                                                 *)
(***************************************************************************)
Ch(s, k) == SubSeq(s, k, k)

UpperAlpha == "ABCDEFGHIJKLMNOPQRSTUVWXYZ"
LowerAlpha == "abcdefghijklmnopqrstuvwxyz"
Digits == {"0", "1", "2", "3", "4", "5", "6", "7", "8", "9"}

IsDigit(c) == c \in Digits
IsUpper(c) == \E k \in 1..26 : Ch(UpperAlpha, k) = c
IsLower(c) == \E k \in 1..26 : Ch(LowerAlpha, k) = c
IsAlpha(c) == IsUpper(c) \/ IsLower(c)
IsSpace(c) == c \in {" ", "\t", "\n"}

LowerCh(c) == IF IsUpper(c)
              THEN Ch(LowerAlpha, CHOOSE k \in 1..26 : Ch(UpperAlpha, k) = c)
              ELSE c
UpperCh(c) == IF IsLower(c)
              THEN Ch(UpperAlpha, CHOOSE k \in 1..26 : Ch(LowerAlpha, k) = c)
              ELSE c

RECURSIVE lower(_)
\* str.lower()
lower(s) == IF Len(s) = 0 THEN "" ELSE LowerCh(Ch(s, 1)) \o lower(SubSeq(s, 2, Len(s)))

RECURSIVE upper(_)
\* str.upper()
upper(s) == IF Len(s) = 0 THEN "" ELSE UpperCh(Ch(s, 1)) \o upper(SubSeq(s, 2, Len(s)))

\* Python's `sub in s`
Contains(s, sub) ==
    \E k \in 1..(Len(s) - Len(sub) + 1) : SubSeq(s, k, k + Len(sub) - 1) = sub

\* str.strip()
strip(s) ==
    LET solid == {k \in 1..Len(s) : ~IsSpace(Ch(s, k))}
    IN  IF solid = {} THEN ""
        ELSE SubSeq(s, CHOOSE a \in solid : \A b \in solid : a <= b,
                       CHOOSE a \in solid : \A b \in solid : a >= b)

\* str.split(',')
split(s) ==
    LET commas == {k \in 1..Len(s) : Ch(s, k) = ","}
        n == Cardinality(commas)
        pos(j) == IF j = 0 THEN 0
                  ELSE IF j = n + 1 THEN Len(s) + 1
                  ELSE CHOOSE k \in commas : Cardinality({m \in commas : m < k}) = j - 1
    IN  [j \in 1..(n + 1) |-> SubSeq(s, pos(j - 1) + 1, pos(j) - 1)]

\* ''.join(c for c in s if c.isdigit())
RECURSIVE digitsOf(_)
digitsOf(s) ==
    IF Len(s) = 0 THEN ""
    ELSE (IF IsDigit(Ch(s, 1)) THEN Ch(s, 1) ELSE "") \o digitsOf(SubSeq(s, 2, Len(s)))

None == [t |-> "None"]

(***************************************************************************)
(* parse_address                                                           *)
(***************************************************************************)
\* length of the whitespace run of s that starts at position p
SpaceRun(s, p) ==
    LET stops == {k \in p..(Len(s) + 1) : k = Len(s) + 1 \/ ~IsSpace(Ch(s, k))}
    IN  (CHOOSE k \in stops : \A m \in stops : k <= m) - p

\* ([A-Za-z]{2})\s+(\d{5}) matched at position p of s
StateZipAt(s, p) ==
    LET w == SpaceRun(s, p + 2)
        z == p + 2 + w
    IN  IF /\ p + 1 <= Len(s)
           /\ IsAlpha(Ch(s, p)) /\ IsAlpha(Ch(s, p + 1))
           /\ w >= 1
           /\ z + 4 <= Len(s)
           /\ \A k \in z..(z + 4) : IsDigit(Ch(s, k))
        THEN [t |-> "match", state |-> SubSeq(s, p, p + 1), zip |-> SubSeq(s, z, z + 4)]
        ELSE None

\* re.match(r'([A-Za-z]{2})\s+(\d{5})', s)
state_zip_match(s) == StateZipAt(s, 1)

\* re.match(r'(.+?),?\s+([A-Za-z]{2})\s+(\d{5})', s): the lazy group takes the
\* shortest prefix after which the rest of the pattern matches
city_state_zip_match(s) ==
    LET tail(q) == IF SpaceRun(s, q) >= 1 THEN StateZipAt(s, q + SpaceRun(s, q)) ELSE None
        after(L) == IF L + 1 <= Len(s) /\ Ch(s, L + 1) = "," /\ tail(L + 2) # None
                    THEN tail(L + 2) ELSE tail(L + 1)
        fits == {L \in 1..Len(s) : (\A k \in 1..L : Ch(s, k) # "\n") /\ after(L) # None}
    IN  IF fits = {} THEN None
        ELSE LET L == CHOOSE a \in fits : \A b \in fits : a <= b
             IN  [t |-> "match", city |-> SubSeq(s, 1, L),
                  state |-> after(L).state, zip |-> after(L).zip]

\* parse_address trying the second pattern on exactly two segments only
parse_address_exactly_two(full_address) ==
    LET parts == split(full_address)
        m1 == IF Len(parts) >= 3 THEN state_zip_match(strip(parts[3])) ELSE None
        m2 == IF Len(parts) = 2 THEN city_state_zip_match(strip(parts[2])) ELSE None
    IN  IF m1 # None
        THEN [t |-> "components", street |-> strip(parts[1]), city |-> strip(parts[2]),
              state |-> upper(m1.state), zip |-> m1.zip]
        ELSE IF m2 # None
        THEN [t |-> "components", street |-> strip(parts[1]), city |-> strip(m2.city),
              state |-> upper(m2.state), zip |-> m2.zip]
        ELSE None

\* parse_address without .upper() on the state group
parse_address_keep_case(full_address) ==
    LET parts == split(full_address)
        m1 == IF Len(parts) >= 3 THEN state_zip_match(strip(parts[3])) ELSE None
        m2 == IF Len(parts) >= 2 THEN city_state_zip_match(strip(parts[2])) ELSE None
    IN  IF m1 # None
        THEN [t |-> "components", street |-> strip(parts[1]), city |-> strip(parts[2]),
              state |-> m1.state, zip |-> m1.zip]
        ELSE IF m2 # None
        THEN [t |-> "components", street |-> strip(parts[1]), city |-> strip(m2.city),
              state |-> m2.state, zip |-> m2.zip]
        ELSE None

\* parse_address applying the second pattern to the last segment, however few
parse_address_one_segment(full_address) ==
    LET parts == split(full_address)
        m1 == IF Len(parts) >= 3 THEN state_zip_match(strip(parts[3])) ELSE None
        m2 == city_state_zip_match(strip(parts[IF Len(parts) >= 2 THEN 2 ELSE 1]))
    IN  IF m1 # None
        THEN [t |-> "components", street |-> strip(parts[1]), city |-> strip(parts[2]),
              state |-> upper(m1.state), zip |-> m1.zip]
        ELSE IF m2 # None
        THEN [t |-> "components", street |-> strip(parts[1]), city |-> strip(m2.city),
              state |-> upper(m2.state), zip |-> m2.zip]
        ELSE None

parse_address(full_address) ==
    LET parts == split(full_address)
        m1 == IF Len(parts) >= 3 THEN state_zip_match(strip(parts[3])) ELSE None
        m2 == IF Len(parts) >= 2 THEN city_state_zip_match(strip(parts[2])) ELSE None
    IN  IF m1 # None
        THEN [t |-> "components", street |-> strip(parts[1]), city |-> strip(parts[2]),
              state |-> upper(m1.state), zip |-> m1.zip]
        ELSE IF m2 # None
        THEN [t |-> "components", street |-> strip(parts[1]), city |-> strip(m2.city),
              state |-> upper(m2.state), zip |-> m2.zip]
        ELSE None

\* systematic_propertyradar_test.py: the same two patterns, line for line
systematic_propertyradar_test_parse_address(full_address) ==
    LET parts == split(full_address)
        m1 == IF Len(parts) >= 3 THEN state_zip_match(strip(parts[3])) ELSE None
        m2 == IF Len(parts) >= 2 THEN city_state_zip_match(strip(parts[2])) ELSE None
    IN  IF m1 # None
        THEN [t |-> "components", street |-> strip(parts[1]), city |-> strip(parts[2]),
              state |-> upper(m1.state), zip |-> m1.zip]
        ELSE IF m2 # None
        THEN [t |-> "components", street |-> strip(parts[1]), city |-> strip(m2.city),
              state |-> upper(m2.state), zip |-> m2.zip]
        ELSE None

\* debug_address_parsing.py: the first pattern only, state upper-cased
debug_address_parsing_parse_address(full_address) ==
    LET parts == split(full_address)
        m == IF Len(parts) >= 3 THEN state_zip_match(strip(parts[3])) ELSE None
    IN  IF m # None
        THEN [t |-> "components", street |-> strip(parts[1]), city |-> strip(parts[2]),
              state |-> upper(m.state), zip |-> m.zip]
        ELSE None

\* check_full_response.py: re.match(r'([A-Z]{2})\s+(\d{5})', s)
check_full_response_state_zip_match(s) ==
    IF state_zip_match(s) # None /\ IsUpper(Ch(s, 1)) /\ IsUpper(Ch(s, 2))
    THEN state_zip_match(s) ELSE None

\* check_full_response.py: the first pattern only, the state group as matched
check_full_response_parse_address(full_address) ==
    LET parts == split(full_address)
        m == IF Len(parts) >= 3
             THEN check_full_response_state_zip_match(strip(parts[3])) ELSE None
    IN  IF m # None
        THEN [t |-> "components", street |-> strip(parts[1]), city |-> strip(parts[2]),
              state |-> m.state, zip |-> m.zip]
        ELSE None

(***************************************************************************)
(* extract_address                                                         *)
(***************************************************************************)
address_indicators == {"st", "rd", "ave", "blvd", "ln", "dr", "way", "ct", "pl"}

LooksLikeAddress(text) == \E ind \in address_indicators : Contains(lower(text), ind)

extract_address(item) ==
    LET cols == {k \in 1..Len(item.column_values) :
                    /\ item.column_values[k].text # ""
                    /\ LooksLikeAddress(item.column_values[k].text)}
    IN  IF item.name = "New address" THEN None
        ELSE IF LooksLikeAddress(item.name) THEN [t |-> "str", v |-> item.name]
        ELSE IF cols # {}
        THEN [t |-> "str", v |-> item.column_values[CHOOSE a \in cols : \A b \in cols : a <= b].text]
        ELSE IF item.name # "" THEN [t |-> "str", v |-> item.name]
        ELSE None

(***************************************************************************)
(* JSON values: tagged records.  A mapping is an ordered sequence of       *)
(* [k, v] entries.                                                         *)
(***************************************************************************)
JS(s) == [t |-> "str", v |-> s]
JN(n) == [t |-> "num", v |-> n]
JL(q) == [t |-> "list", v |-> q]
JD(q) == [t |-> "dict", v |-> q]
KV(key, val) == [k |-> key, v |-> val]

IsDict(j) == j.t = "dict"
IsList(j) == j.t = "list"
IsStr(j) == j.t = "str"

\* key in d
HasKey(d, key) == \E n \in 1..Len(d.v) : d.v[n].k = key

\* d.get(key, default) of a mapping d
Get(d, key, default) ==
    IF HasKey(d, key) THEN d.v[CHOOSE n \in 1..Len(d.v) : d.v[n].k = key].v ELSE default

\* Python truthiness
Truthy(j) ==
    CASE j.t = "str" -> j.v # ""
      [] j.t = "num" -> j.v # 0
      [] j.t = "list" -> Len(j.v) > 0
      [] j.t = "dict" -> Len(j.v) > 0
      [] OTHER -> FALSE

RECURSIVE NatStr(_)
NatStr(n) == IF n < 10 THEN Ch("0123456789", n + 1)
             ELSE NatStr(n \div 10) \o Ch("0123456789", (n % 10) + 1)

RECURSIVE repr(_)
RECURSIVE JoinRepr(_, _)
\* repr(value) for the values a JSON document decodes to
repr(j) ==
    CASE j.t = "str" -> "'" \o j.v \o "'"
      [] j.t = "num" -> NatStr(j.v)
      [] j.t = "list" -> "[" \o JoinRepr(j.v, FALSE) \o "]"
      [] j.t = "dict" -> "{" \o JoinRepr(j.v, TRUE) \o "}"
      [] OTHER -> "None"
JoinRepr(q, entries) ==
    IF Len(q) = 0 THEN ""
    ELSE (IF entries THEN "'" \o q[1].k \o "': " \o repr(q[1].v) ELSE repr(q[1]))
         \o (IF Len(q) > 1 THEN ", " ELSE "")
         \o JoinRepr(Tail(q), entries)

\* str(value)
str(j) == IF j.t = "str" THEN j.v ELSE repr(j)

\* the elements of a sequence without repetition, as set(...) / list(set(...))
\* hand them back (in an order the program does not control)
RECURSIVE SetToSeq(_)
SetToSeq(S) == IF S = {} THEN <<>>
               ELSE LET e == CHOOSE a \in S : TRUE IN <<e>> \o SetToSeq(S \ {e})
Range(q) == {q[n] : n \in 1..Len(q)}

RECURSIVE Flatten(_)
\* concatenation of a sequence of sequences
Flatten(qq) == IF Len(qq) = 0 THEN <<>> ELSE qq[1] \o Flatten(Tail(qq))

(***************************************************************************)
(* Phone extraction and formatting                                         *)
(***************************************************************************)
\* indicators that every key contains
phone_indicators_any == {"phone", "tel", "mobile", "landline", "number", "linktext", ""}

phone_indicators == {"phone", "tel", "mobile", "landline", "number", "linktext"}
email_indicators == {"email", "mail", "linktext"}

HasDigit(s) == \E k \in 1..Len(s) : IsDigit(Ch(s, k))
AllDigits(s, a, b) == b <= Len(s) /\ \A k \in a..b : IsDigit(Ch(s, k))
IsSep(s, k) == k <= Len(s) /\ Ch(s, k) \in {"-", "."}

\* length of the match of \d{3}[-.]?\d{3}[-.]?\d{4} at position p of s, 0 if none
PhoneAt(s, p) ==
    LET a == p + 3 + (IF IsSep(s, p + 3) THEN 1 ELSE 0)
        b == a + 3 + (IF IsSep(s, a + 3) THEN 1 ELSE 0)
    IN  IF AllDigits(s, p, p + 2) /\ AllDigits(s, a, a + 2) /\ AllDigits(s, b, b + 3)
        THEN b + 4 - p ELSE 0

\* re.search(r'(\d{3}[-.]?\d{3}[-.]?\d{4})', s): the leftmost match, None if none
phone_match(s) ==
    LET hits == {p \in 1..Len(s) : PhoneAt(s, p) > 0}
    IN  IF hits = {} THEN None
        ELSE LET p == CHOOSE a \in hits : \A b \in hits : a <= b
             IN  JS(SubSeq(s, p, p + PhoneAt(s, p) - 1))

\* the formatting branch dropping the first of any eleven digits
FormatPhone_any_eleven(phone) ==
    LET digits == digitsOf(phone)
    IN  IF Len(digits) = 10
        THEN JS("(" \o SubSeq(digits, 1, 3) \o ") " \o SubSeq(digits, 4, 6) \o "-" \o SubSeq(digits, 7, 10))
        ELSE IF Len(digits) = 11
        THEN JS("(" \o SubSeq(digits, 2, 4) \o ") " \o SubSeq(digits, 5, 7) \o "-" \o SubSeq(digits, 8, 11))
        ELSE IF Len(digits) >= 10 THEN JS(phone)
        ELSE None

\* the formatting branch writing ten digits as +1DDDDDDDDDD
FormatPhone_e164(phone) ==
    LET digits == digitsOf(phone)
    IN  IF Len(digits) = 10
        THEN JS("+1" \o digits)
        ELSE IF Len(digits) = 11 /\ Ch(digits, 1) = "1"
        THEN JS("(" \o SubSeq(digits, 2, 4) \o ") " \o SubSeq(digits, 5, 7) \o "-" \o SubSeq(digits, 8, 11))
        ELSE IF Len(digits) >= 10 THEN JS(phone)
        ELSE None

\* the formatting branch shared by both phone extractors; None = discarded
FormatPhone(phone) ==
    LET digits == digitsOf(phone)
    IN  IF Len(digits) = 10
        THEN JS("(" \o SubSeq(digits, 1, 3) \o ") " \o SubSeq(digits, 4, 6) \o "-" \o SubSeq(digits, 7, 10))
        ELSE IF Len(digits) = 11 /\ Ch(digits, 1) = "1"
        THEN JS("(" \o SubSeq(digits, 2, 4) \o ") " \o SubSeq(digits, 5, 7) \o "-" \o SubSeq(digits, 8, 11))
        ELSE IF Len(digits) >= 10 THEN JS(phone)
        ELSE None

\* the cleaning loop: one output per kept input, in input order
CleanPhones(raw) ==
    Flatten([n \in 1..Len(raw) |->
                IF FormatPhone(raw[n]) = None THEN <<>> ELSE <<FormatPhone(raw[n]).v>>])

RECURSIVE search_recursive_phone(_)
\* find_phone_numbers_in_response_comprehensive.search_recursive: the list
\* `phones` it fills, in traversal order
search_recursive_phone(obj) ==
    IF IsDict(obj)
    THEN Flatten([n \in 1..Len(obj.v) |->
            LET key == obj.v[n].k
                value == obj.v[n].v
            IN  IF \E ind \in phone_indicators : Contains(lower(key), ind)
                THEN IF IsStr(value) /\ HasDigit(value.v)
                     THEN IF phone_match(value.v) # None THEN <<phone_match(value.v).v>> ELSE <<>>
                     ELSE IF IsList(value) \/ IsDict(value)
                     THEN search_recursive_phone(value)
                     ELSE <<>>
                ELSE IF IsDict(value) \/ IsList(value)
                THEN search_recursive_phone(value)
                ELSE <<>>])
    ELSE IF IsList(obj)
    THEN Flatten([n \in 1..Len(obj.v) |-> search_recursive_phone(obj.v[n])])
    ELSE <<>>

find_phone_numbers_in_response_comprehensive(data) ==
    CleanPhones(SetToSeq(Range(search_recursive_phone(data))))

RECURSIVE find_phones_recursive(_)
\* extract_phones_from_data.find_phones_recursive: the list `phones` it fills
find_phones_recursive(obj) ==
    IF IsDict(obj)
    THEN Flatten([n \in 1..Len(obj.v) |->
            LET key == obj.v[n].k
                value == obj.v[n].v
            IN  IF Contains(lower(key), "phone") /\ Truthy(value)
                THEN <<str(value)>>
                ELSE IF IsDict(value) \/ IsList(value)
                THEN find_phones_recursive(value)
                ELSE <<>>])
    ELSE IF IsList(obj)
    THEN Flatten([n \in 1..Len(obj.v) |-> find_phones_recursive(obj.v[n])])
    ELSE <<>>

extract_phones_from_data(data) ==
    SetToSeq(Range(CleanPhones(find_phones_recursive(data))))

(***************************************************************************)
(* Email extraction and validation                                         *)
(***************************************************************************)
RECURSIVE search_recursive_email(_)
\* find_emails_in_response_comprehensive.search_recursive
search_recursive_email(obj) ==
    IF IsDict(obj)
    THEN Flatten([n \in 1..Len(obj.v) |->
            LET key == obj.v[n].k
                value == obj.v[n].v
            IN  IF \E ind \in email_indicators : Contains(lower(key), ind)
                THEN IF IsStr(value) /\ Contains(value.v, "@") /\ Contains(value.v, ".")
                     THEN <<value.v>>
                     ELSE IF IsList(value) \/ IsDict(value)
                     THEN search_recursive_email(value)
                     ELSE <<>>
                ELSE IF IsDict(value) \/ IsList(value)
                THEN search_recursive_email(value)
                ELSE <<>>])
    ELSE IF IsList(obj)
    THEN Flatten([n \in 1..Len(obj.v) |-> search_recursive_email(obj.v[n])])
    ELSE <<>>

find_emails_in_response_comprehensive(data) ==
    LET found == SetToSeq(Range(search_recursive_email(data)))
    IN  Flatten([n \in 1..Len(found) |->
            LET email == strip(found[n])
            IN  IF Contains(email, "@") /\ Contains(email, ".") /\ Len(email) > 5
                THEN <<email>> ELSE <<>>])

RECURSIVE find_emails_recursive(_)
\* extract_emails_from_data.find_emails_recursive
find_emails_recursive(obj) ==
    IF IsDict(obj)
    THEN Flatten([n \in 1..Len(obj.v) |->
            LET key == obj.v[n].k
                value == obj.v[n].v
            IN  IF Contains(lower(key), "email") /\ Truthy(value)
                THEN <<str(value)>>
                ELSE IF IsDict(value) \/ IsList(value)
                THEN find_emails_recursive(value)
                ELSE <<>>])
    ELSE IF IsList(obj)
    THEN Flatten([n \in 1..Len(obj.v) |-> find_emails_recursive(obj.v[n])])
    ELSE <<>>

extract_emails_from_data(data) ==
    LET found == find_emails_recursive(data)
    IN  SetToSeq(Range(Flatten([n \in 1..Len(found) |->
            LET email == strip(found[n])
            IN  IF Contains(email, "@") /\ Contains(email, ".") THEN <<email>> ELSE <<>>])))

(***************************************************************************)
(* Inputs: the items of the board and the responses of the boundaries      *)
(***************************************************************************)
MaxItems == 2

ItemChoices ==
    { [name |-> "New address", column_values |-> <<>>],
      [name |-> "9 Oak Rd", column_values |-> <<>>],
      [name |-> "Job 7", column_values |-> <<[text |-> "1 Elm St, Reno, NV 89501"]>>] }

\* a response: `raised` stands for an exception of requests (timeout, connection)
Resp(status, body, text) == [raised |-> FALSE, status |-> status, body |-> body, text |-> text]
Timeout == [raised |-> TRUE, status |-> 0, body |-> None, text |-> ""]

PropertyResponses ==
    { Timeout,
      Resp(500, None, "server error"),
      Resp(200, JD(<<KV("resultCount", JN(0))>>), ""),
      Resp(200, JD(<<KV("results", JL(<<>>)), KV("resultCount", JN(0))>>), ""),
      Resp(200, JL(<<JD(<<KV("RadarID", JS("P1"))>>)>>), ""),
      Resp(200, JD(<<KV("results", JL(<<JD(<<KV("RadarID", JS("P1"))>>)>>))>>), ""),
      Resp(200, JD(<<KV("results", JL(<<JD(<<KV("RadarID", JS("P1"))>>),
                                        JD(<<KV("Address", JS("1 Elm St"))>>)>>))>>), ""),
      Resp(200, JD(<<KV("results", JL(<<JD(<<KV("RadarID", JS("P1"))>>), JS("P2")>>))>>), "") }

OwnersResponses ==
    { Timeout,
      Resp(404, None, "not found"),
      Resp(200, JD(<<KV("results", JL(<<>>))>>), ""),
      Resp(200, JD(<<KV("totalCost", JN(1)),
                     KV("results", JL(<<JD(<<KV("PersonKey", JS("K1")), KV("Name", JS("Ann"))>>)>>))>>), ""),
      Resp(200, JD(<<KV("results", JL(<<JD(<<KV("EntityName", JS("Acme LLC"))>>)>>))>>), ""),
      Resp(200, JD(<<KV("results", JL(<<JD(<<KV("EntityName", JS("Acme LLC"))>>),
                                        JD(<<KV("PersonKey", JS("K1")), KV("Name", JS("Ann"))>>)>>))>>), ""),
      Resp(200, JD(<<KV("results", JL(<<JS("K1")>>))>>), "") }

PersonKeys == {"K1"}

ContactResponses ==
    { Timeout,
      Resp(500, None, "server error"),
      Resp(400, None, "Data already purchased"),
      Resp(400, None, "bad request"),
      Resp(200, JD(<<KV("totalCost", JN(0)), KV("resultCount", JN(0)), KV("results", JL(<<>>))>>), ""),
      Resp(200, JL(<<>>), ""),
      Resp(200, JD(<<KV("totalCost", JN(1)), KV("resultCount", JN(1)),
                     KV("results", JL(<<JD(<<KV("Phone", JS("555-123-4567")),
                                             KV("Email", JS("a@b.co"))>>)>>))>>), ""),
      Resp(200, JD(<<KV("results", JL(<<JD(<<KV("Phone", JS("555-123-4567"))>>),
                                        JD(<<KV("Phone", JS("5551234567"))>>)>>))>>), "") }

(***************************************************************************)
(* What each function makes of a response                                  *)
(***************************************************************************)
\* search_property_with_propertyradar, from the request on: every failure and
\* every exception inside the try block gives []
search_result(resp) ==
    IF /\ ~resp.raised /\ resp.status = 200 /\ IsDict(resp.body)
       /\ HasKey(resp.body, "results") /\ Truthy(Get(resp.body, "results", None))
    THEN Get(resp.body, "results", None).v
    ELSE <<>>

\* get_owners_by_radar_id, from the request on: owner.get on a result that is
\* not a mapping raises inside the try block and the whole list is lost
owners_result(resp) ==
    IF /\ ~resp.raised /\ resp.status = 200 /\ IsDict(resp.body)
       /\ HasKey(resp.body, "results") /\ Truthy(Get(resp.body, "results", None))
       /\ \A n \in 1..Len(Get(resp.body, "results", None).v) :
             IsDict(Get(resp.body, "results", None).v[n])
    THEN LET rs == Get(resp.body, "results", None).v
         IN  [n \in 1..Len(rs) |->
                [person_key |-> Get(rs[n], "PersonKey", None),
                 name |-> IF Truthy(Get(rs[n], "EntityName", None)) THEN Get(rs[n], "EntityName", None)
                          ELSE IF Truthy(Get(rs[n], "Name", None)) THEN Get(rs[n], "Name", None)
                          ELSE JS("Unknown Owner")]]
    ELSE <<>>

Returns(found, cost) == [found |-> found, cost |-> cost]

\* data.get('totalCost', 0) and float(total_cost) succeed
CostReadable(data) == IsDict(data) /\ Get(data, "totalCost", JN(0)).t = "num"

\* total_cost = data.get('totalCost', 0) of a 200 response: the cost the
\* boundary reports for the request (0 when it reports none)
ReportedCost(resp) ==
    IF ~resp.raised /\ resp.status = 200 /\ CostReadable(resp.body)
    THEN Get(resp.body, "totalCost", JN(0)).v ELSE 0

\* get_cached_phone_data / get_cached_email_data, from the request on
cached_result(kind, resp) ==
    IF ~resp.raised /\ resp.status = 200 /\ CostReadable(resp.body)
    THEN LET found == IF kind = "Phone"
                      THEN find_phone_numbers_in_response_comprehensive(resp.body)
                      ELSE find_emails_in_response_comprehensive(resp.body)
         IN  IF found # <<>> THEN Returns(found, Get(resp.body, "totalCost", JN(0)).v)
             ELSE Returns(<<>>, 0)
    ELSE Returns(<<>>, 0)

\* the body of the inner loop of get_phone_data_alternative_endpoints /
\* get_email_data_alternative_endpoints: what one probe finds
alt_result(kind, resp) ==
    IF ~resp.raised /\ resp.status = 200
    THEN IF kind = "Phone"
         THEN find_phone_numbers_in_response_comprehensive(resp.body)
         ELSE find_emails_in_response_comprehensive(resp.body)
    ELSE <<>>

\* variant: a failed purchase is still charged
purchase_result_charged(kind, resp) ==
    IF ~resp.raised /\ resp.status = 200 /\ CostReadable(resp.body)
    THEN Returns(IF kind = "Phone" THEN extract_phones_from_data(resp.body)
                 ELSE extract_emails_from_data(resp.body),
                 Get(resp.body, "totalCost", JN(0)).v)
    ELSE Returns(<<>>, 1)

\* step 3 of get_phone_numbers_for_owner / get_emails_for_owner
purchase_result(kind, resp) ==
    IF ~resp.raised /\ resp.status = 200 /\ CostReadable(resp.body)
    THEN Returns(IF kind = "Phone" THEN extract_phones_from_data(resp.body)
                 ELSE extract_emails_from_data(resp.body),
                 Get(resp.body, "totalCost", JN(0)).v)
    ELSE Returns(<<>>, 0)

\* the 400 branch that recognises a quota / conflict answer
IsConflict(resp) ==
    /\ ~resp.raised /\ resp.status = 400
    /\ (Contains(resp.text, "already purchased") \/ Contains(resp.text, "not available for purchase"))

\* extract_address(item) for each item, and parse_address(address) for each
\* address it gives
ItemAddress == [it \in ItemChoices |-> extract_address(it)]
ParsedAddress ==
    [address \in {ItemAddress[it].v : it \in {c \in ItemChoices : ItemAddress[c] # None}} |->
        parse_address(address)]

\* what the requests of each step can hand back to the code, over the responses
\* above (requests.post / requests.get with the response handling that follows)
Kinds == {"Phone", "Email"}
SearchResults ==
    {[found |-> search_result(resp), reported |-> ReportedCost(resp)] :
        resp \in PropertyResponses}
OwnersResults ==
    {[found |-> owners_result(resp), reported |-> ReportedCost(resp)] :
        resp \in OwnersResponses}
CachedReturns ==
    [kind \in Kinds |-> {[r |-> cached_result(kind, resp), reported |-> ReportedCost(resp)] :
                            resp \in ContactResponses}]
AltFinds ==
    [kind \in Kinds |-> {[found |-> alt_result(kind, resp), reported |-> ReportedCost(resp)] :
                            resp \in ContactResponses}]
PurchaseReturns ==
    [kind \in Kinds |-> {[r |-> purchase_result(kind, resp), conflict |-> IsConflict(resp),
                           reported |-> ReportedCost(resp)] :
                            resp \in ContactResponses}]

alternative_endpoints == <<"person", "contact", "contacts">>
\* variant: each endpoint is asked twice in the same mode
purchase_modes_same == <<0, 0>>

purchase_modes == <<0, 1>>

(***************************************************************************)
(* main(): the processing loop, one step per boundary request              *)
(***************************************************************************)
VARIABLES
    items,            \* what get_monday_addresses returned
    USE_PAID_SEARCH,  \* the search-mode switch of main
    pc,               \* where main stands
    i,                \* index of the item being processed
    results,          \* the report records appended so far
    frame,            \* the locals of the loop body
    addrCalls,        \* history: kinds of boundary requests issued per item
    purchases,        \* history: Purchase=1 contact requests issued per PersonKey
    cacheServed,      \* history: PersonKeys whose Purchase=0 step returned data
    lookupLog,        \* history: the requests of the latest contact lookup
    lookupResult,     \* history: what the latest contact lookup returned
    lastCallAddr,     \* history: item of the latest boundary request (0: none)
    sleptSince,       \* history: time.sleep ran after the latest boundary request
    chargeCalls,      \* history: kinds of boundary requests sent with Purchase=1
    charged,          \* history: sum of the costs the Purchase=1 requests reported
    summary,          \* the figures of the final report (None before it)
    fn,               \* the function called on its own ("": none yet)
    arg,              \* its argument
    out,              \* what it returned
    before            \* what the call before it returned (<<>>: this is the first)

\* the run of main, and the call of one function on its own
run == <<items, USE_PAID_SEARCH, pc, i, results, frame, addrCalls, purchases,
         cacheServed, lookupLog, lookupResult, lastCallAddr, sleptSince,
         chargeCalls, charged, summary>>
call == <<fn, arg, out, before>>
vars == <<run, call>>

EmptyFrame ==
    [address |-> "", property_results |-> <<>>, ri |-> 0, owners |-> <<>>, oi |-> 0,
     owner_details |-> <<>>, all_phones |-> <<>>, all_emails |-> <<>>,
     kind |-> "", ep |-> 0, mode |-> 0, owner_phones |-> <<>>, phone_cost |-> 0]

Init ==
    /\ items \in UNION {[1..n -> ItemChoices] : n \in 0..MaxItems}
    /\ USE_PAID_SEARCH \in BOOLEAN
    /\ pc = "start"
    /\ i = 1
    /\ results = <<>>
    /\ frame = EmptyFrame
    /\ addrCalls = [n \in 1..Len(items) |-> {}]
    /\ purchases = [k \in PersonKeys |-> 0]
    /\ cacheServed = {}
    /\ lookupLog = <<>>
    /\ lookupResult = None
    /\ lastCallAddr = 0
    /\ sleptSince = FALSE
    /\ chargeCalls = {} /\ charged = 0 /\ summary = None
    /\ fn = "" /\ arg = None /\ out = None /\ before = <<>>

\* ---- history bookkeeping ------------------------------------------------
Issue(what, key, purchase, reported) ==
    /\ addrCalls' = [addrCalls EXCEPT ![i] = @ \cup {what}]
    /\ lastCallAddr' = i
    /\ purchases' = IF what = "contact" /\ purchase = 1
                    THEN [purchases EXCEPT ![key] = @ + 1] ELSE purchases
    /\ chargeCalls' = IF purchase = 1 THEN chargeCalls \cup {what} ELSE chargeCalls
    /\ charged' = IF purchase = 1 THEN charged + reported ELSE charged
NoIssue == UNCHANGED <<addrCalls, lastCallAddr, purchases, chargeCalls, charged>>

Paced(called, slept) ==
    sleptSince' = IF slept THEN TRUE ELSE IF called THEN FALSE ELSE sleptSince

\* ---- the branches of the loop body ---------------------------------------
EmptyRecord(address, status) ==
    [address |-> address, owners |-> <<>>, phones |-> <<>>, emails |-> <<>>, status |-> status]

\* results.append({... empty ...}); continue
Skip(address, status, called) ==
    /\ results' = Append(results, EmptyRecord(address, status))
    /\ i' = i + 1
    /\ pc' = "loop"
    /\ frame' = EmptyFrame
    /\ Paced(called, FALSE)

Goto(p, f, called) ==
    /\ pc' = p
    /\ frame' = f
    /\ UNCHANGED <<i, results>>
    /\ Paced(called, FALSE)

\* variant: only the phones decide the status
Status_phones_only(all_phones, all_emails) ==
    IF all_phones # <<>> THEN "Success" ELSE "No contact info found"

\* line 928
Status(all_phones, all_emails) ==
    IF all_phones # <<>> \/ all_emails # <<>> THEN "Success" ELSE "No contact info found"

\* variant: the aggregates are the concatenated lists, duplicates and all
Finish_no_dedup(f, called) ==
    /\ results' = Append(results,
            [address |-> f.address, owners |-> f.owner_details,
             phones |-> f.all_phones,
             emails |-> f.all_emails,
             status |-> Status(f.all_phones, f.all_emails)])
    /\ i' = i + 1
    /\ pc' = "loop"
    /\ frame' = EmptyFrame
    /\ Paced(called, TRUE)

\* lines 922-946: store the result, then time.sleep(2)
Finish(f, called) ==
    /\ results' = Append(results,
            [address |-> f.address, owners |-> f.owner_details,
             phones |-> SetToSeq(Range(f.all_phones)),
             emails |-> SetToSeq(Range(f.all_emails)),
             status |-> Status(f.all_phones, f.all_emails)])
    /\ i' = i + 1
    /\ pc' = "loop"
    /\ frame' = EmptyFrame
    /\ Paced(called, TRUE)

\* lines 910-920, then the next owner or the end of the loop body
OwnerDone(f, phones, phone_cost, emails, email_cost, called) ==
    LET owner == f.owners[f.oi]
        g == [f EXCEPT !.owner_details = Append(@, [name |-> owner.name,
                                                     person_key |-> owner.person_key,
                                                     phones |-> phones, emails |-> emails,
                                                     phone_cost |-> phone_cost,
                                                     email_cost |-> email_cost]),
                       !.all_phones = @ \o phones,
                       !.all_emails = @ \o emails,
                       !.kind = "", !.ep = 0, !.mode = 0,
                       !.owner_phones = <<>>, !.phone_cost = 0]
    IN  IF f.oi < Len(f.owners)
        THEN Goto("owner", [g EXCEPT !.oi = @ + 1], called)
        ELSE Finish(g, called)

\* variant: the empty search result is not noticed
NoProperty_never(property_results) == FALSE

\* line 854: if not property_results
NoProperty(property_results) == property_results = <<>>

\* variant: the empty owner list is not noticed
NoOwners_never(owners) == FALSE

\* line 867: if not owners
NoOwners(owners) == owners = <<>>

\* variant: the request is sent although the address did not parse
Unparseable_never(components) == FALSE

\* line 162: if not components
Unparseable(components) == components = None

\* lines 867-880, once extract_owner_info has returned
AfterOwners(f, called) ==
    IF NoOwners(f.owners) THEN Skip(f.address, "No owners found", called)
    ELSE IF Len(f.owners) = 0 THEN Finish(f, called)
    ELSE Goto("owner", [f EXCEPT !.oi = 1], called)

\* lines 854-865, once search_property_with_propertyradar has returned
AfterSearch(f, called) ==
    IF NoProperty(f.property_results) THEN Skip(f.address, "No property data", called)
    ELSE IF Len(f.property_results) = 0 THEN AfterOwners(f, called)
    ELSE Goto("owners", [f EXCEPT !.ri = 1], called)

\* ---- the steps -----------------------------------------------------------
\* lines 817-826
Start ==
    /\ pc = "start"
    /\ pc' = IF items = <<>> THEN "done" ELSE "loop"
    /\ UNCHANGED <<call, items, USE_PAID_SEARCH, i, results, frame, addrCalls, purchases,
                   cacheServed, lookupLog, lookupResult, lastCallAddr, sleptSince,
                   chargeCalls, charged, summary>>

\* lines 828-845
NextItem ==
    /\ pc = "loop"
    /\ i <= Len(items)
    /\ LET address == ItemAddress[items[i]]
       IN  IF address = None
           THEN Skip("No address", "No address", FALSE)
           ELSE Goto("search", [EmptyFrame EXCEPT !.address = address.v], FALSE)
    /\ NoIssue
    /\ lookupLog' = <<>>
    /\ lookupResult' = None
    /\ UNCHANGED <<call, summary, items, USE_PAID_SEARCH, cacheServed>>

\* lines 847-862 with search_property_with_propertyradar
SearchProperty ==
    /\ pc = "search"
    /\ IF Unparseable(ParsedAddress[frame.address])
       THEN /\ AfterSearch([frame EXCEPT !.property_results = <<>>], FALSE)
            /\ NoIssue
       ELSE \E got \in SearchResults :
            /\ AfterSearch([frame EXCEPT !.property_results = got.found], TRUE)
            /\ Issue("property", "", IF USE_PAID_SEARCH THEN 1 ELSE 0, got.reported)
    /\ UNCHANGED <<call, summary, items, USE_PAID_SEARCH, cacheServed, lookupLog, lookupResult>>

\* one round of the loop of extract_owner_info (lines 252-267) with
\* get_owners_by_radar_id; result.get on a result that is not a mapping raises
\* and nothing catches it
ResolveOwners ==
    /\ pc = "owners"
    /\ LET result == frame.property_results[frame.ri]
           last == frame.ri = Len(frame.property_results)
           next(f, called) == IF last THEN AfterOwners(f, called)
                              ELSE Goto("owners", [f EXCEPT !.ri = @ + 1], called)
       IN  IF ~IsDict(result)
           THEN /\ pc' = "crashed"
                /\ UNCHANGED <<i, results, frame, sleptSince>>
                /\ NoIssue
           ELSE IF ~Truthy(Get(result, "RadarID", None))
           THEN /\ next(frame, FALSE)
                /\ NoIssue
           ELSE \E owner_data \in OwnersResults :
                /\ next([frame EXCEPT !.owners = @ \o owner_data.found], TRUE)
                /\ Issue("owners", "", 1, owner_data.reported)
    /\ UNCHANGED <<call, summary, items, USE_PAID_SEARCH, cacheServed, lookupLog, lookupResult>>

\* variant: the lookups are made whether or not the owner has a PersonKey
ProcessOwner_any_key ==
    /\ pc = "owner"
    /\ IF USE_PAID_SEARCH
       THEN Goto("cached", [frame EXCEPT !.kind = "Phone"], FALSE)
       ELSE OwnerDone(frame, <<>>, 0, <<>>, 0, FALSE)
    /\ NoIssue
    /\ UNCHANGED <<call, summary, items, USE_PAID_SEARCH, cacheServed, lookupLog, lookupResult>>

\* lines 882-908: the head of the loop over the owners
ProcessOwner ==
    /\ pc = "owner"
    /\ LET owner == frame.owners[frame.oi]
       IN  IF Truthy(owner.person_key) /\ USE_PAID_SEARCH
           THEN Goto("cached", [frame EXCEPT !.kind = "Phone"], FALSE)
           ELSE OwnerDone(frame, <<>>, 0, <<>>, 0, FALSE)
    /\ NoIssue
    /\ UNCHANGED <<call, summary, items, USE_PAID_SEARCH, cacheServed, lookupLog, lookupResult>>

person_key == str(frame.owners[frame.oi].person_key)

Entry(step, endpoint, purchase, got, conflict, reported) ==
    [kind |-> frame.kind, key |-> person_key, step |-> step, endpoint |-> endpoint,
     purchase |-> purchase, got |-> got, conflict |-> conflict, reported |-> reported]

\* the lookup function returns (found, cost) to main: lines 890-893
LookupReturns(r) ==
    /\ lookupResult' = [kind |-> frame.kind, key |-> person_key,
                        found |-> r.found, cost |-> r.cost]
    /\ IF frame.kind = "Phone"
       THEN Goto("cached", [frame EXCEPT !.kind = "Email", !.ep = 0, !.mode = 0,
                                         !.owner_phones = r.found,
                                         !.phone_cost = r.cost], TRUE)
       ELSE OwnerDone(frame, frame.owner_phones, frame.phone_cost, r.found, r.cost, TRUE)

\* variant: a miss in step 1 goes straight to the purchase
AfterCached_purchase(r) == IF r.found # <<>> THEN "return" ELSE "purchase"

\* variant: step 2 is tried even when step 1 returned data
AfterCached_always_alt(r) == "alt"

\* lines 348-353 / 551-556: what follows step 1
AfterCached(r) == IF r.found # <<>> THEN "return" ELSE "alt"

\* lines 463-487 / 666-690: what follows one probe of step 2
AfterAlt(found, ep, mode) ==
    IF found # <<>> THEN "return"
    ELSE IF mode < Len(purchase_modes) \/ ep < Len(alternative_endpoints) THEN "alt"
    ELSE "purchase"

\* step 1: get_cached_phone_data / get_cached_email_data
Cached ==
    /\ pc = "cached"
    /\ \E ret \in CachedReturns[frame.kind] :
       LET r == ret.r
           after == AfterCached(r)
       IN  /\ lookupLog' = <<Entry("cached", frame.kind, 0, r.found # <<>>, FALSE, ret.reported)>>
           /\ cacheServed' = IF r.found # <<>> THEN cacheServed \cup {person_key} ELSE cacheServed
           /\ Issue("contact", person_key, 0, ret.reported)
           /\ CASE after = "return" -> LookupReturns(r)
                [] after = "alt" ->
                     /\ Goto("alt", [frame EXCEPT !.ep = 1, !.mode = 1], TRUE)
                     /\ lookupResult' = None
                [] OTHER ->
                     /\ Goto("purchase", frame, TRUE)
                     /\ lookupResult' = None
    /\ UNCHANGED <<call, summary, items, USE_PAID_SEARCH>>

\* step 2: one request of get_phone_data_alternative_endpoints /
\* get_email_data_alternative_endpoints
Alt ==
    /\ pc = "alt"
    /\ \E got \in AltFinds[frame.kind] :
       LET found == got.found
           after == AfterAlt(found, frame.ep, frame.mode)
       IN  /\ lookupLog' = Append(lookupLog,
                               Entry("alt", alternative_endpoints[frame.ep],
                                     purchase_modes[frame.mode], found # <<>>, FALSE,
                                     got.reported))
           /\ Issue("contact", person_key, purchase_modes[frame.mode], got.reported)
           /\ CASE after = "return" -> LookupReturns(Returns(found, 0))
                [] after = "alt" ->
                     /\ Goto("alt", IF frame.mode < Len(purchase_modes)
                                    THEN [frame EXCEPT !.mode = @ + 1]
                                    ELSE [frame EXCEPT !.ep = @ + 1, !.mode = 1], TRUE)
                     /\ UNCHANGED lookupResult
                [] OTHER ->
                     /\ Goto("purchase", frame, TRUE)
                     /\ UNCHANGED lookupResult
    /\ UNCHANGED <<call, summary, items, USE_PAID_SEARCH, cacheServed>>

\* step 3: lines 357-404 / 560-607
Purchase ==
    /\ pc = "purchase"
    /\ \E ret \in PurchaseReturns[frame.kind] :
           /\ lookupLog' = Append(lookupLog,
                               Entry("purchase", frame.kind, 1, ret.r.found # <<>>,
                                     ret.conflict, ret.reported))
           /\ LookupReturns(ret.r)
           /\ Issue("contact", person_key, 1, ret.reported)
    /\ UNCHANGED <<call, summary, items, USE_PAID_SEARCH, cacheServed>>

RECURSIVE Sum(_)
Sum(q) == IF Len(q) = 0 THEN 0 ELSE q[1] + Sum(Tail(q))

\* lines 953-970: the figures of the summary
Summary(rs) ==
    LET count(P(_)) == Cardinality({n \in 1..Len(rs) : P(rs[n])})
        with_phones(r) == r.phones # <<>>
        with_emails(r) == r.emails # <<>>
        with_contact(r) == r.phones # <<>> \/ r.emails # <<>>
        total_phone_cost ==
            Sum([n \in 1..Len(rs) |->
                    Sum([o \in 1..Len(rs[n].owners) |-> rs[n].owners[o].phone_cost])])
        total_email_cost ==
            Sum([n \in 1..Len(rs) |->
                    Sum([o \in 1..Len(rs[n].owners) |-> rs[n].owners[o].email_cost])])
    IN  [total_addresses |-> Len(rs),
         addresses_with_phones |-> count(with_phones),
         addresses_with_emails |-> count(with_emails),
         addresses_with_contact |-> count(with_contact),
         total_phones |-> Sum([n \in 1..Len(rs) |-> Len(rs[n].phones)]),
         total_emails |-> Sum([n \in 1..Len(rs) |-> Len(rs[n].emails)]),
         total_phone_cost |-> total_phone_cost,
         total_email_cost |-> total_email_cost,
         total_cost |-> total_phone_cost + total_email_cost]

\* lines 948-1012: the final report
Report ==
    /\ pc = "loop"
    /\ i > Len(items)
    /\ pc' = "done"
    /\ summary' = Summary(results)
    /\ lookupLog' = <<>>
    /\ lookupResult' = None
    /\ UNCHANGED <<call, items, USE_PAID_SEARCH, i, results, frame, addrCalls, purchases,
                   cacheServed, lastCallAddr, sleptSince, chargeCalls, charged>>

Next ==
    \/ Start
    \/ NextItem
    \/ SearchProperty
    \/ ResolveOwners
    \/ ProcessOwner
    \/ Cached
    \/ Alt
    \/ Purchase
    \/ Report

Spec == Init /\ [][Next]_vars

\* the runs over at most MaxLiveItems items; the interpreter runs main to its
\* end: a step that can be taken is taken
MaxLiveItems == 1
LiveInit == Init /\ Len(items) <= MaxLiveItems
LiveSpec == LiveInit /\ [][Next]_vars /\ WF_vars(Next)

TypeOK ==
    /\ pc \in {"start", "loop", "search", "owners", "owner", "cached", "alt", "purchase",
               "done", "crashed"}
    /\ i \in 1..(Len(items) + 1)
    /\ Len(results) <= Len(items)

(***************************************************************************)
(* Properties                                                              *)
(***************************************************************************)
\* the parse of each item's address, as main computes it
ItemParse == [it \in ItemChoices |->
                IF ItemAddress[it] = None THEN None ELSE parse_address(ItemAddress[it].v)]
ParseFails(n) == ItemAddress[items[n]] # None /\ ItemParse[items[n]] = None

Last(q) == q[Len(q)]

\* C1: within one contact lookup the requests run cache -> alternates ->
\* purchase: a Purchase=1 request comes only after the Purchase=0 request on the
\* contact endpoint of the same owner found nothing, and the step-3 purchase
\* only after every alternative endpoint was probed in both modes and found
\* nothing.
C1_CacheAlternatesPurchase ==
    \A n \in 1..Len(lookupLog) :
        /\ lookupLog[n].key = lookupLog[1].key /\ lookupLog[n].kind = lookupLog[1].kind
        /\ lookupLog[n].purchase = 1 =>
              /\ n > 1
              /\ lookupLog[1].step = "cached" /\ lookupLog[1].purchase = 0
              /\ ~lookupLog[1].got
        /\ lookupLog[n].step = "purchase" =>
              \A e \in Range(alternative_endpoints), m \in Range(purchase_modes) :
                  \E a \in 2..(n - 1) :
                      /\ lookupLog[a].step = "alt" /\ lookupLog[a].endpoint = e
                      /\ lookupLog[a].purchase = m /\ ~lookupLog[a].got

C1_Witness ==
    /\ lookupLog # <<>>
    /\ Last(lookupLog).step = "purchase"
    /\ Last(lookupLog).got

\* C2: for every owner identifier at most one Purchase=1 request is issued on
\* the owner's behalf during a run.
C2_ChargedAtMostOnce == \A k \in PersonKeys : purchases[k] <= 1

\* C3 (as stated): once the Purchase=0 step has returned contact data for an
\* owner, no Purchase=1 request is issued for that owner in the rest of the run.
C3_NoPurchaseAfterCacheHit ==
    [][\A k \in PersonKeys : k \in cacheServed => purchases'[k] = purchases[k]]_vars

\* C3 (amended): a phone lookup, or an email lookup, whose Purchase=0 step
\* returned contact data issues no further request, so no Purchase=1 request
\* belongs to that lookup.
C3_CacheHitEndsLookup ==
    (\E n \in 1..Len(lookupLog) : lookupLog[n].step = "cached" /\ lookupLog[n].got) =>
        /\ Len(lookupLog) = 1
        /\ \A n \in 1..Len(lookupLog) : lookupLog[n].purchase = 0
        /\ lookupResult # None /\ lookupResult.found # <<>>

C3_Witness ==
    /\ Len(lookupLog) = 1
    /\ lookupLog[1].got
    /\ lookupLog[1].kind = "Email"
    /\ purchases[lookupLog[1].key] > 0

\* C4: the run never aborts, and at its end there is exactly one report record
\* per input item, in input order.
C4_RunNeverAborts ==
    /\ pc # "crashed"
    /\ pc = "done" =>
          /\ Len(results) = Len(items)
          /\ \A n \in 1..Len(items) :
                results[n].address = IF ItemAddress[items[n]] = None THEN "No address"
                                     ELSE ItemAddress[items[n]].v

\* C5: when the property search of an address gives no match, the record
\* "No property data" (the script's name for property-not-found) is appended at
\* once, with empty owners, phones and emails, and no owner or contact request is
\* ever issued for that address.
C5_PropertyNotFound ==
    /\ [](\A n \in 1..Len(results) :
            results[n].status = "No property data" =>
                /\ results[n].owners = <<>> /\ results[n].phones = <<>> /\ results[n].emails = <<>>
                /\ addrCalls[n] \subseteq {"property"})
    /\ [][(pc = "search" /\ pc' # "owners") =>
            /\ pc' = "loop"
            /\ results' = Append(results, EmptyRecord(frame.address, "No property data"))
            /\ addrCalls'[i] \subseteq {"property"}]_vars

C5_Witness ==
    \E n \in 1..Len(results) :
        /\ results[n].status = "No property data"
        /\ addrCalls[n] = {"property"}
        /\ results[n].owners = <<>>

\* C6 (as stated): an address that fails to parse ends with status "No address".
C6_ParseFailureIsNoAddress ==
    \A n \in 1..Len(results) : ParseFails(n) => results[n].status = "No address"

\* C6 (amended): an address that fails to parse ends with status
\* "No property data", the status of a failed property match, and no request is
\* issued for it; "No address" is the status of exactly the items from which no
\* address can be extracted.
C6_ParseFailureIsNoPropertyData ==
    \A n \in 1..Len(results) :
        /\ ParseFails(n) => results[n].status = "No property data" /\ addrCalls[n] = {}
        /\ results[n].status = "No address" <=> ItemAddress[items[n]] = None

C6_Witness ==
    \E n \in 1..Len(results) : ParseFails(n) /\ results[n].status = "No property data"

\* C7: a record produced after owners were found has status "Success" exactly
\* when some owner has a phone or an email, which is exactly when its aggregated
\* phones or emails are non-empty, and "No contact info found" otherwise.
C7_SuccessIffContact ==
    \A n \in 1..Len(results) :
        LET r == results[n]
            some == \E o \in 1..Len(r.owners) :
                        r.owners[o].phones # <<>> \/ r.owners[o].emails # <<>>
        IN  r.owners # <<>> =>
                /\ r.status \in {"Success", "No contact info found"}
                /\ r.status = "Success" <=> some
                /\ r.status = "Success" <=> (r.phones # <<>> \/ r.emails # <<>>)

C7_Witness ==
    /\ \E n \in 1..Len(results) :
          /\ results[n].status = "Success"
          /\ results[n].phones = <<>> /\ results[n].emails # <<>>
    /\ \E n \in 1..Len(results) :
          /\ results[n].status = "No contact info found" /\ results[n].owners # <<>>

\* C8: when owner resolution ends without owners, the record "No owners found"
\* is appended at once with empty owners, phones and emails, and no contact
\* request is ever issued for that address.
C8_NoOwnersFound ==
    /\ [](\A n \in 1..Len(results) :
            results[n].status = "No owners found" =>
                /\ results[n].owners = <<>> /\ results[n].phones = <<>> /\ results[n].emails = <<>>
                /\ "contact" \notin addrCalls[n])
    /\ [][(pc = "owners" /\ pc' \notin {"owners", "owner", "crashed"}) =>
            /\ pc' = "loop"
            /\ results' = Append(results, EmptyRecord(frame.address, "No owners found"))
            /\ "contact" \notin addrCalls'[i]]_vars

C8_Witness ==
    \E n \in 1..Len(results) :
        /\ results[n].status = "No owners found"
        /\ "owners" \in addrCalls[n]

\* the detail record of the owner whose lookups returned last
LastDetail ==
    IF pc = "loop" THEN Last(Last(results).owners) ELSE Last(frame.owner_details)

\* C9: a quota / conflict answer (HTTP 400, "already purchased") to the step-3
\* purchase ends the lookup with no contacts and cost zero, no further request
\* of that lookup follows, and the run goes on.
C9_ConflictIsSoftFailure ==
    \A n \in 1..Len(lookupLog) :
        (lookupLog[n].step = "purchase" /\ lookupLog[n].conflict) =>
            /\ n = Len(lookupLog)
            /\ lookupResult # None /\ lookupResult.found = <<>> /\ lookupResult.cost = 0
            /\ pc \in {"cached", "owner", "loop"}
            /\ IF lookupLog[n].kind = "Phone"
               THEN frame.owner_phones = <<>> /\ frame.phone_cost = 0
               ELSE LastDetail.emails = <<>> /\ LastDetail.email_cost = 0

C9_Witness ==
    /\ lookupLog # <<>>
    /\ Last(lookupLog).step = "purchase" /\ Last(lookupLog).conflict
    /\ Last(lookupLog).kind = "Email"
    /\ pc = "loop"

\* C10: a boundary request for an address is never issued after a boundary
\* request for an earlier address without a rate-limit pause in between.
C10_PauseBetweenAddresses ==
    [][(lastCallAddr' # lastCallAddr /\ lastCallAddr # 0) => sleptSince]_vars

(***************************************************************************)
(* parse_address called on its own                                         *)
(***************************************************************************)
\* main has not started
NoRun ==
    /\ items = <<>> /\ USE_PAID_SEARCH = FALSE /\ pc = "start" /\ i = 1
    /\ results = <<>> /\ frame = EmptyFrame /\ addrCalls = <<>>
    /\ purchases = [k \in PersonKeys |-> 0] /\ cacheServed = {}
    /\ lookupLog = <<>> /\ lookupResult = None
    /\ lastCallAddr = 0 /\ sleptSince = FALSE
    /\ chargeCalls = {} /\ charged = 0 /\ summary = None

\* the raw addresses: five layouts of street, city, state token and zip
Streets == {"1 Elm St", "4097 Al Highway 69"}
Cities == {"Reno", "St Paul"}
StateTokens == {"NV", "Al", "ms", "nV", "N1", "NVX"}
Zips == {"89501", "8950", "89501-1234"}
Pads == {"", "  "}
Gaps == {"", " ", "  "}
Layouts == {"street, city, ST zip", "street, city ST zip", "street city ST zip",
            "street, city, ST zip, USA", "street, city ST zip, USA"}

Addresses == [street : Streets, city : Cities, st : StateTokens, zip : Zips,
              pad : Pads, gap : Gaps, layout : Layouts]

RawAddress(a) ==
    LET state_zip == a.st \o a.gap \o a.zip
        three == a.pad \o a.street \o a.pad \o "," \o a.pad \o a.city \o a.pad
                    \o "," \o a.pad \o state_zip \o a.pad
        two == a.pad \o a.street \o a.pad \o "," \o a.pad \o a.city
                    \o " " \o state_zip \o a.pad
    IN  CASE a.layout = "street, city, ST zip" -> three
          [] a.layout = "street, city ST zip" -> two
          [] a.layout = "street city ST zip" -> a.street \o " " \o a.city \o " " \o state_zip
          [] a.layout = "street, city, ST zip, USA" -> three \o ", USA"
          [] a.layout = "street, city ST zip, USA" -> two \o ", USA"

ParseInit == NoRun /\ fn = "" /\ arg \in Addresses /\ out = None /\ before = <<>>

\* final_working_script.py
ParseAddress ==
    /\ fn = ""
    /\ fn' = "parse_address"
    /\ out' = parse_address(RawAddress(arg))
    /\ UNCHANGED <<run, arg, before>>

\* debug_address_parsing.py
DebugParseAddress ==
    /\ fn = ""
    /\ fn' = "debug_address_parsing.parse_address"
    /\ out' = debug_address_parsing_parse_address(RawAddress(arg))
    /\ UNCHANGED <<run, arg, before>>

\* check_full_response.py
CheckParseAddress ==
    /\ fn = ""
    /\ fn' = "check_full_response.parse_address"
    /\ out' = check_full_response_parse_address(RawAddress(arg))
    /\ UNCHANGED <<run, arg, before>>

\* systematic_propertyradar_test.py
SystematicParseAddress ==
    /\ fn = ""
    /\ fn' = "systematic_propertyradar_test.parse_address"
    /\ out' = systematic_propertyradar_test_parse_address(RawAddress(arg))
    /\ UNCHANGED <<run, arg, before>>

ParseNext ==
    ParseAddress \/ DebugParseAddress \/ CheckParseAddress \/ SystematicParseAddress

ParseSpec == ParseInit /\ [][ParseNext]_vars

IsState(s) == Len(s) = 2 /\ IsUpper(Ch(s, 1)) /\ IsUpper(Ch(s, 2))
IsZip(s) == Len(s) = 5 /\ \A k \in 1..5 : IsDigit(Ch(s, k))

\* C11: an address "<street>, <city>, <ST> <5 digits>" parses to its trimmed
\* street and city, its state and its zip; and every successful parse carries
\* a state of two uppercase letters and a zip of five digits.
C11_ParsesStreetCityStateZip ==
    fn = "parse_address" =>
        /\ (/\ arg.layout = "street, city, ST zip"
            /\ IsState(arg.st) /\ IsZip(arg.zip) /\ arg.gap # "") =>
                /\ out # None
                /\ out.street = arg.street /\ out.city = arg.city
                /\ out.state = arg.st /\ out.zip = arg.zip
        /\ out # None => IsState(out.state) /\ IsZip(out.zip)

C11_Witness ==
    /\ fn = "parse_address"
    /\ arg.layout = "street, city, ST zip" /\ arg.pad = "  " /\ arg.gap = "  "
    /\ out # None /\ out.street = "4097 Al Highway 69" /\ out.city = "St Paul"
    /\ out.state = "NV" /\ out.zip = "89501"

\* the address with its state token in capitals
Capitalised(a) == [a EXCEPT !.st = upper(a.st)]

\* what the parser that was called returns for a raw address
Parser(raw) ==
    CASE fn = "parse_address" -> parse_address(raw)
      [] fn = "debug_address_parsing.parse_address" ->
            debug_address_parsing_parse_address(raw)
      [] fn = "check_full_response.parse_address" ->
            check_full_response_parse_address(raw)
      [] fn = "systematic_propertyradar_test.parse_address" ->
            systematic_propertyradar_test_parse_address(raw)

\* C12: whichever parse_address is called, an address parses exactly when the
\* same address with its state token in capitals parses, and the state that is
\* returned is the token in capitals.
C12_StateCaseNeverMatters ==
    fn # "" =>
        /\ (out # None) <=> (Parser(RawAddress(Capitalised(arg))) # None)
        /\ out # None => out.state = upper(arg.st)

\* C13: an address without a comma (fewer than two segments) parses to None.
C13_OneSegmentFails ==
    (fn = "parse_address" /\ ~Contains(RawAddress(arg), ",")) => out = None

C13_Witness ==
    /\ fn = "parse_address"
    /\ RawAddress(arg) = "1 Elm St Reno NV 89501"
    /\ out = None

(***************************************************************************)
(* The extractors called on their own                                      *)
(***************************************************************************)
MaxRaw == 2

RawPhones == {"5551234567", "15551234567", "555-123-4567", "555.123.4567",
              "(555) 123-4567", "25551234567", "555-123-4567 x89", "555-1234"}
RawEmails == {"a@b.co", " a@b.co ", "ann@example.com", "a@b.c", "a@.b",
              "ann.example.com", "ann@localhost"}

\* [{key: values[1]}, {key: values[2]}, ...]
Listing(key, values) ==
    JL([n \in 1..Len(values) |-> JD(<<KV(key, JS(values[n]))>>)])

Lists(S) == UNION {[1..n -> S] : n \in 1..MaxRaw}

\* one keyed string, bare or under an outer key in a mapping or in a list
LeafKeys == {"HomePhone", "phone", "notes", "Email", "LinkText"}
LeafValues == {"(555) 123-4567", "555-123-4567", "call 555-123-4567 maybe", "a@b.co"}
OuterKeys == {"Phones", "Emails", "data"}
Leaves == {JD(<<KV(k, JS(v))>>) : k \in LeafKeys, v \in LeafValues}
Nested ==
    Leaves
    \cup {JD(<<KV(o, leaf)>>) : o \in OuterKeys, leaf \in Leaves}
    \cup {JD(<<KV(o, JL(<<leaf>>))>>) : o \in OuterKeys, leaf \in Leaves}

\* payloads written out: several records under a matching key, a number, bare
\* strings in a list, a record of the shape the provider documents
Written ==
    {JD(<<KV("Phones", JL(<<JD(<<KV("phone", JS("555-123-4567"))>>),
                           JD(<<KV("phone", JS("555-987-6543"))>>)>>))>>),
     JD(<<KV("Emails", JL(<<JD(<<KV("email", JS("a@b.co"))>>),
                           JD(<<KV("email", JS("ann@example.com"))>>)>>))>>),
     JD(<<KV("Phone", JN(5551234))>>),
     JL(<<JS("555-123-4567"), JS("a@b.co")>>),
     JD(<<KV("results", JL(<<JD(<<KV("Phone", JD(<<KV("areaCode", JS("555")),
                                                  KV("number", JS("555-123-4567"))>>)),
                                  KV("Email", JS("a@b.co")),
                                  KV("notes", JS("mail ann@example.com, 555.987.6543"))>>)>>))>>),
     JD(<<>>)}

Payloads ==
    {Listing("Phone", q) : q \in Lists(RawPhones)}
    \cup {Listing("Email", q) : q \in Lists(RawEmails)}
    \cup Nested \cup Written

ExtractInit == NoRun /\ fn = "" /\ arg \in Payloads /\ out = None /\ before = <<>>

\* step 1 and step 2 of a phone lookup hand the response to this function
FindPhones ==
    /\ fn = ""
    /\ fn' = "find_phone_numbers_in_response_comprehensive"
    /\ out' = find_phone_numbers_in_response_comprehensive(arg)
    /\ UNCHANGED <<run, arg, before>>

\* step 3 of a phone lookup hands the purchase response to this function
ExtractPhones ==
    /\ fn = ""
    /\ fn' = "extract_phones_from_data"
    /\ out' = extract_phones_from_data(arg)
    /\ UNCHANGED <<run, arg, before>>

FindEmails ==
    /\ fn = ""
    /\ fn' = "find_emails_in_response_comprehensive"
    /\ out' = find_emails_in_response_comprehensive(arg)
    /\ UNCHANGED <<run, arg, before>>

ExtractEmails ==
    /\ fn = ""
    /\ fn' = "extract_emails_from_data"
    /\ out' = extract_emails_from_data(arg)
    /\ UNCHANGED <<run, arg, before>>

\* the function called once more, on a listing of what it returned
Renormalize ==
    /\ fn # "" /\ before = <<>>
    /\ arg' = Listing(IF fn \in {"find_phone_numbers_in_response_comprehensive",
                                  "extract_phones_from_data"}
                      THEN "Phone" ELSE "Email", out)
    /\ out' = CASE fn = "find_phone_numbers_in_response_comprehensive" ->
                        find_phone_numbers_in_response_comprehensive(arg')
                 [] fn = "extract_phones_from_data" -> extract_phones_from_data(arg')
                 [] fn = "find_emails_in_response_comprehensive" ->
                        find_emails_in_response_comprehensive(arg')
                 [] fn = "extract_emails_from_data" -> extract_emails_from_data(arg')
    /\ before' = <<out>>
    /\ UNCHANGED <<run, fn>>

ExtractNext ==
    FindPhones \/ ExtractPhones \/ FindEmails \/ ExtractEmails \/ Renormalize

ExtractSpec == ExtractInit /\ [][ExtractNext]_vars

\* the strings of a listing [{key: s1}, {key: s2}, ...]
IsListing(d, key) ==
    /\ IsList(d)
    /\ \A n \in 1..Len(d.v) :
          /\ IsDict(d.v[n]) /\ Len(d.v[n].v) = 1
          /\ d.v[n].v[1].k = key /\ IsStr(d.v[n].v[1].v)
Values(d) == {d.v[n].v[1].v.v : n \in 1..Len(d.v)}

DigitCount(s) == Cardinality({k \in 1..Len(s) : IsDigit(Ch(s, k))})

\* s is written "(DDD) DDD-DDDD"
Canonical(s) ==
    /\ Len(s) = 14
    /\ Ch(s, 1) = "(" /\ AllDigits(s, 2, 4) /\ SubSeq(s, 5, 6) = ") "
    /\ AllDigits(s, 7, 9) /\ Ch(s, 10) = "-" /\ AllDigits(s, 11, 14)

\* o is what the phone rule makes of the raw string
Normalized(raw, o) ==
    CASE DigitCount(raw) = 10 -> Canonical(o) /\ digitsOf(o) = digitsOf(raw)
      [] DigitCount(raw) = 11 /\ Ch(digitsOf(raw), 1) = "1" ->
            Canonical(o) /\ "1" \o digitsOf(o) = digitsOf(raw)
      [] OTHER -> DigitCount(raw) >= 10 /\ o = raw

PhoneFunctions == {"find_phone_numbers_in_response_comprehensive", "extract_phones_from_data"}

\* C14: a raw phone string with exactly 10 digits is returned as
\* "(DDD) DDD-DDDD", one with 11 digits the first of which is 1 likewise
\* without the 1, any other with 10 digits or more as it is, and one with
\* fewer than 10 digits not at all; so every phone that is returned is
\* canonical or carries at least 10 digits.
C14_PhoneRule ==
    /\ (fn = "extract_phones_from_data" /\ IsListing(arg, "Phone")) =>
            /\ \A o \in Range(out) : \E raw \in Values(arg) : Normalized(raw, o)
            /\ \A raw \in Values(arg) :
                    DigitCount(raw) >= 10 => \E o \in Range(out) : Normalized(raw, o)
    /\ fn \in PhoneFunctions =>
            \A o \in Range(out) : Canonical(o) \/ DigitCount(o) >= 10

C14_Witness ==
    /\ fn = "extract_phones_from_data"
    /\ arg = Listing("Phone", <<"25551234567", "15551234567">>)
    /\ Range(out) = {"25551234567", "(555) 123-4567"}

\* C15: no phone function returns the same value twice, and raw strings that
\* are one number written differently come back as that one number.
C15_PhonesDeduplicated ==
    fn \in PhoneFunctions =>
        /\ \A a, b \in 1..Len(out) : out[a] = out[b] => a = b
        /\ (/\ IsListing(arg, "Phone")
            /\ \A raw \in Values(arg) : Normalized(raw, "(555) 123-4567")) =>
                out = <<"(555) 123-4567">>

EmailFunctions == {"find_emails_in_response_comprehensive", "extract_emails_from_data"}

\* C16: every email a lookup step returns has no blank at either end, holds
\* "@" and ".", and is longer than 5 characters.
C16_EmailsValid ==
    fn \in EmailFunctions =>
        \A e \in Range(out) :
            /\ Len(e) > 5
            /\ ~IsSpace(Ch(e, 1)) /\ ~IsSpace(Ch(e, Len(e)))
            /\ Contains(e, "@") /\ Contains(e, ".")

\* C17: the phone normalisation of extract_phones_from_data and both email
\* normalisations, applied to a listing of what they returned, return the same
\* values again.
C17_NormalizationIdempotent ==
    (before # <<>> /\ fn \in {"extract_phones_from_data"} \cup EmailFunctions) =>
        Range(out) = Range(before[1])

C17_Witness ==
    /\ fn = "extract_phones_from_data"
    /\ before # <<>>
    /\ Range(before[1]) = {"25551234567", "(555) 123-4567"}
    /\ arg = Listing("Phone", before[1])
    /\ Range(out) = {"25551234567", "(555) 123-4567"}

\* the key, in lower case, contains one of the indicators
KeyHolds(key, indicators) == \E ind \in indicators : Contains(lower(key), ind)
PhoneKey(key) ==
    KeyHolds(key, {"phone", "tel", "mobile", "landline", "number", "linktext"})
EmailKey(key) == KeyHolds(key, {"email", "mail", "linktext"})

\* C18: for a mapping of one entry whose key holds a phone indicator and whose
\* value is a string "(DDD) DDD-DDDD", find_phone_numbers_in_response_comprehensive
\* returns exactly one phone, of the same ten digits.
C18_CanonicalValueMatched ==
    (/\ fn = "find_phone_numbers_in_response_comprehensive"
     /\ IsDict(arg) /\ Len(arg.v) = 1
     /\ PhoneKey(arg.v[1].k)
     /\ IsStr(arg.v[1].v) /\ Canonical(arg.v[1].v.v)) =>
        /\ Len(out) = 1
        /\ digitsOf(out[1]) = digitsOf(arg.v[1].v.v)

RECURSIVE Entries(_)
\* the mapping entries of a JSON value, at every depth
Entries(j) ==
    IF IsDict(j) THEN UNION {{j.v[n]} \cup Entries(j.v[n].v) : n \in 1..Len(j.v)}
    ELSE IF IsList(j) THEN UNION {Entries(j.v[n]) : n \in 1..Len(j.v)}
    ELSE {}

\* C19: every phone (email) the fuzzy extractor returns comes from a string
\* that is the value of an entry whose own key holds a phone (email)
\* indicator; strings under other keys yield nothing, at any depth.
C19_KeyDriven ==
    /\ fn = "find_phone_numbers_in_response_comprehensive" =>
            \A o \in Range(out) : \E e \in Entries(arg) :
                /\ PhoneKey(e.k) /\ IsStr(e.v)
                /\ Contains(digitsOf(e.v.v), digitsOf(o))
    /\ fn = "find_emails_in_response_comprehensive" =>
            \A o \in Range(out) : \E e \in Entries(arg) :
                /\ EmailKey(e.k) /\ IsStr(e.v)
                /\ Contains(e.v.v, o)

C19_Witness ==
    /\ fn = "find_phone_numbers_in_response_comprehensive"
    /\ arg = JD(<<KV("Phones", JL(<<JD(<<KV("notes", JS("call 555-123-4567 maybe"))>>)>>))>>)
    /\ out = <<>>

\* C20: whichever function a lookup step uses, a phone written DDD-DDD-DDDD
\* under a key holding "phone", and a valid email under a key holding "email",
\* is returned from any depth, also below a key that holds the indicator.
C20_FoundAtAnyDepth ==
    /\ fn \in PhoneFunctions =>
            \A e \in Entries(arg) :
                (/\ Contains(lower(e.k), "phone") /\ IsStr(e.v)
                 /\ Len(e.v.v) > 0 /\ PhoneAt(e.v.v, 1) = Len(e.v.v)) =>
                    \E o \in Range(out) : Canonical(o) /\ digitsOf(o) = digitsOf(e.v.v)
    /\ fn \in EmailFunctions =>
            \A e \in Entries(arg) :
                (/\ Contains(lower(e.k), "email") /\ IsStr(e.v)
                 /\ Len(e.v.v) > 5 /\ Contains(e.v.v, "@") /\ Contains(e.v.v, ".")
                 /\ ~IsSpace(Ch(e.v.v, 1)) /\ ~IsSpace(Ch(e.v.v, Len(e.v.v)))) =>
                    e.v.v \in Range(out)

(***************************************************************************)
(* Properties of the run, continued                                        *)
(***************************************************************************)
\* C21: every request of step 2 (the alternative endpoints) is sent with
\* Purchase=0, and no request of step 2 follows one that returned contacts.
C21_AlternatesReadOnly ==
    \A n \in 1..Len(lookupLog) :
        lookupLog[n].step = "alt" =>
            /\ lookupLog[n].purchase = 0
            /\ lookupLog[n].got => n = Len(lookupLog)

\* C22: a lookup that returns what step 1 or step 2 found returns cost 0,
\* whatever cost that response reported; a lookup that ends with the step-3
\* purchase returns the cost that response reported, contacts or not.
C22_CostByStep ==
    lookupResult # None =>
        /\ (Last(lookupLog).step \in {"cached", "alt"} /\ Last(lookupLog).got) =>
                lookupResult.cost = 0
        /\ Last(lookupLog).step = "purchase" =>
                lookupResult.cost = Last(lookupLog).reported

\* the requests one lookup can issue, in the order of the code
Requests(kind) ==
    <<[step |-> "cached", endpoint |-> kind, purchase |-> 0],
      [step |-> "alt", endpoint |-> "person", purchase |-> 0],
      [step |-> "alt", endpoint |-> "person", purchase |-> 1],
      [step |-> "alt", endpoint |-> "contact", purchase |-> 0],
      [step |-> "alt", endpoint |-> "contact", purchase |-> 1],
      [step |-> "alt", endpoint |-> "contacts", purchase |-> 0],
      [step |-> "alt", endpoint |-> "contacts", purchase |-> 1],
      [step |-> "purchase", endpoint |-> kind, purchase |-> 1]>>

Request(e) == [step |-> e.step, endpoint |-> e.endpoint, purchase |-> e.purchase]

\* C23: within one lookup no request (endpoint and cost mode) is issued twice;
\* a request that gave no data, failed or not, is followed by the next request
\* of the sequence cached, alternates, purchase and never by itself.
C23_NoRetry ==
    /\ \A a, b \in 1..Len(lookupLog) :
            Request(lookupLog[a]) = Request(lookupLog[b]) => a = b
    /\ \A n \in 1..Len(lookupLog) :
            /\ n <= Len(Requests(lookupLog[n].kind))
            /\ Request(lookupLog[n]) = Requests(lookupLog[n].kind)[n]
            /\ n < Len(lookupLog) => ~lookupLog[n].got

C23_Witness ==
    /\ Len(lookupLog) = 8
    /\ Last(lookupLog).step = "purchase" /\ ~Last(lookupLog).got
    /\ lookupResult # None /\ lookupResult.found = <<>>

(***************************************************************************)
(* Properties of parse_address, continued                                  *)
(***************************************************************************)
TwoPatternParsers == {"parse_address", "systematic_propertyradar_test.parse_address"}

\* the number of comma-separated segments of the raw address
Segments(a) == Cardinality({k \in 1..Len(RawAddress(a)) : Ch(RawAddress(a), k) = ","}) + 1

\* "ST zip" of the address reads as two letters, blanks, five digits
StateZipReads(a) ==
    /\ Len(a.st) = 2 /\ IsAlpha(Ch(a.st, 1)) /\ IsAlpha(Ch(a.st, 2))
    /\ a.gap # ""
    /\ Len(a.zip) >= 5 /\ \A k \in 1..5 : IsDigit(Ch(a.zip, k))

\* the third segment is "ST zip" / the second segment is "city ST zip"
ThirdReads(a) ==
    a.layout \in {"street, city, ST zip", "street, city, ST zip, USA"} /\ StateZipReads(a)
SecondReads(a) ==
    a.layout \in {"street, city ST zip", "street, city ST zip, USA"} /\ StateZipReads(a)

\* C24 (as stated): an address of three or more segments whose third segment
\* is not "ST zip" does not parse.
C24_SecondPatternOnlyForTwoSegments ==
    (fn \in TwoPatternParsers /\ Segments(arg) >= 3 /\ ~ThirdReads(arg)) => out = None

\* C24 (amended): an address of two or more segments whose third segment is
\* missing or is not "ST zip" parses exactly when its second segment reads
\* "city ST zip", and then to that city, state and zip, however many segments
\* follow.
C24_SecondPatternWheneverFirstFails ==
    (fn \in TwoPatternParsers /\ Segments(arg) >= 2 /\ ~ThirdReads(arg)) =>
        /\ out # None <=> SecondReads(arg)
        /\ out # None =>
              /\ out.street = arg.street /\ out.city = arg.city
              /\ out.state = upper(arg.st) /\ out.zip = SubSeq(arg.zip, 1, 5)

C24_Witness ==
    /\ fn = "parse_address"
    /\ arg.layout = "street, city ST zip, USA" /\ arg.st = "ms" /\ arg.city = "St Paul"
    /\ Segments(arg) = 3
    /\ out # None /\ out.city = "St Paul" /\ out.state = "MS"

(***************************************************************************)
(* Properties of the run: addresses and owners that cannot be looked up    *)
(***************************************************************************)
\* C25: for an address that does not parse no request is ever issued (neither
\* the property match nor, after it, an owner or contact request), the run
\* never enters the owner or contact steps for it, and its record has no
\* owners, no phones and no emails.
C25_UnparseableExcluded ==
    \A n \in 1..Len(items) :
        ParseFails(n) =>
            /\ addrCalls[n] = {}
            /\ i = n => pc \in {"start", "loop", "search"}
            /\ n <= Len(results) =>
                  /\ results[n].owners = <<>>
                  /\ results[n].phones = <<>>
                  /\ results[n].emails = <<>>

C25_Witness ==
    /\ pc = "done"
    /\ \E n \in 1..Len(results) :
          /\ ParseFails(n)
          /\ addrCalls[n] = {}
          /\ results[n] = EmptyRecord(ItemAddress[items[n]].v, "No property data")
    /\ \E n \in 1..Len(results) : "property" \in addrCalls[n]

\* the owner details written so far: those of the records and those of the
\* address being processed
OwnerDetails ==
    UNION {Range(results[n].owners) : n \in 1..Len(results)} \cup Range(frame.owner_details)

NoContact(d) == d.phones = <<>> /\ d.emails = <<>> /\ d.phone_cost = 0 /\ d.email_cost = 0

\* C26: no step of a contact lookup (cache, alternate, purchase; phone or
\* email) is ever entered for an owner without PersonKey, so a record whose
\* owners all lack it has no contact request; every owner passed gets its
\* detail in turn, and the detail of an owner without PersonKey has no phones,
\* no emails and zero phone and email cost.
C26_NoLookupWithoutIdentifier ==
    /\ pc \in {"cached", "alt", "purchase"} => Truthy(frame.owners[frame.oi].person_key)
    /\ \A n \in 1..Len(lookupLog) : lookupLog[n].key \in PersonKeys
    /\ pc \in {"owner", "cached", "alt", "purchase"} =>
          /\ Len(frame.owner_details) = frame.oi - 1
          /\ \A k \in 1..Len(frame.owner_details) :
                /\ frame.owner_details[k].person_key = frame.owners[k].person_key
                /\ frame.owner_details[k].name = frame.owners[k].name
    /\ \A d \in OwnerDetails : ~Truthy(d.person_key) => NoContact(d)
    /\ \A n \in 1..Len(results) :
          (\A d \in Range(results[n].owners) : ~Truthy(d.person_key)) =>
              "contact" \notin addrCalls[n]

C26_Witness ==
    /\ USE_PAID_SEARCH
    /\ \E n \in 1..Len(results) :
          /\ Len(results[n].owners) = 2
          /\ results[n].owners[1].person_key = None
          /\ results[n].owners[1].name = JS("Acme LLC")
          /\ NoContact(results[n].owners[1])
          /\ results[n].owners[2].person_key = JS("K1")
          /\ results[n].owners[2].phones # <<>>

(***************************************************************************)
(* Properties of the run: what it costs                                    *)
(***************************************************************************)
\* C27: the total cost of the final summary is the sum of the costs reported
\* by the requests the run sent with Purchase=1.
C27_TotalIsWhatWasCharged ==
    summary # None => summary.total_cost = charged

\* C28: with USE_PAID_SEARCH = False no request is sent with Purchase=1.
C28_TestModeNeverCharges ==
    ~USE_PAID_SEARCH => chargeCalls = {}

(***************************************************************************)
(* Properties of the run: the records                                      *)
(***************************************************************************)
NoDuplicates(q) == \A a, b \in 1..Len(q) : q[a] = q[b] => a = b

OwnersPhones(r) == UNION {Range(r.owners[o].phones) : o \in 1..Len(r.owners)}
OwnersEmails(r) == UNION {Range(r.owners[o].emails) : o \in 1..Len(r.owners)}

\* C29: in every record the aggregated phones and the aggregated emails have
\* no entry twice and hold exactly the phones, resp. emails, of the record's
\* owners; a record with a status other than "Success" and "No contact info
\* found" has no owners and empty aggregates.
C29_AggregatesAreTheOwnersContacts ==
    \A n \in 1..Len(results) :
        LET r == results[n]
        IN  /\ NoDuplicates(r.phones) /\ Range(r.phones) = OwnersPhones(r)
            /\ NoDuplicates(r.emails) /\ Range(r.emails) = OwnersEmails(r)
            /\ r.status \notin {"Success", "No contact info found"} =>
                  r.owners = <<>> /\ r.phones = <<>> /\ r.emails = <<>>

\* an owner's list carries one number twice and the aggregate carries it once
C29_Witness ==
    \E n \in 1..Len(results) :
        /\ results[n].status = "Success"
        /\ \E o \in 1..Len(results[n].owners) : ~NoDuplicates(results[n].owners[o].phones)
        /\ results[n].phones = <<"(555) 123-4567">>
        /\ results[n].emails = <<"a@b.co">>

(***************************************************************************)
(* Termination                                                             *)
(***************************************************************************)
\* C30: every run comes to its end with one record for each item (and with
\* the final report when there are items).
C30_RunCompletes ==
    <>(/\ pc = "done"
       /\ Len(results) = Len(items)
       /\ items # <<>> => summary # None)
====
